---- MODULE Spec2Model ----
(***************************************************************************)
(* Model of src/server.js: the POST /mcp handler of the Remote MCP Server  *)
(* (JSON-RPC dispatch, the save_conversation tool and its outbound call).  *)
(*                                                                         *)
(* Each in-flight HTTP request occupies a slot r \in Reqs.  The handler is *)
(* an async function: it runs without interruption up to the first real    *)
(* suspension (await fetch, line 192), resumes when fetch settles, is      *)
(* suspended once more on response.json() (line 193) and then runs to the  *)
(* end.  Everything between two suspensions is one action.                 *)
(***************************************************************************)
EXTENDS Integers, Sequences, FiniteSets

\* Number of request slots (requests the transport may hold at once).
NumReq == 2

Reqs == 1..NumReq

-----------------------------------------------------------------------------
(* JavaScript values, as parsed from JSON by bodyParser.json() (line 10).   *)
(* A value is a record with its type tag; a number is written by its       *)
(* decimal text, which is also what a template literal prints for it.      *)

Undef == [t |-> "undefined", v |-> ""]
Null == [t |-> "null", v |-> ""]
Str(s) == [t |-> "string", v |-> s]
Num(s) == [t |-> "number", v |-> s]
\* A JSON object that has an own, non-callable "toString" member, such as
\* {"toString": 1}: converting it to a string throws a TypeError.
BadObj == [t |-> "object", v |-> "toString"]

\* ToBoolean, as used by `!x`, `x && y`, `x || y`.
Truthy(x) ==
    CASE x.t = "undefined" -> FALSE
      [] x.t = "null"      -> FALSE
      [] x.t = "string"    -> x.v # ""
      [] x.t = "number"    -> x.v # "0"
      [] OTHER             -> TRUE

\* The typeof operator.
Typeof(x) == IF x.t = "null" THEN "object" ELSE x.t

\* Whether `${x}` evaluates without throwing.
CanStringify(x) == ~(x.t = "object" /\ x.v = "toString")

\* The text `${x}` inserts for x (defined where CanStringify(x)).
ToString(x) ==
    CASE x.t = "undefined" -> "undefined"
      [] x.t = "null"      -> "null"
      [] OTHER             -> x.v

\* Messages are kept as <<fixed text, inserted text>>.
Msg(fixed, inserted) == <<fixed, inserted>>

TypeErrorToPrimitive == Msg("Cannot convert object to primitive value", "")
\* The TypeError of reading member `prop` of undefined or null.
TypeErrorRead(x, prop) ==
    CASE x.t = "undefined" /\ prop = "content" ->
             Msg("Cannot read properties of undefined (reading 'content')", "")
      [] x.t = "null" /\ prop = "content" ->
             Msg("Cannot read properties of null (reading 'content')", "")
      [] x.t = "null" /\ prop = "error" ->
             Msg("Cannot read properties of null (reading 'error')", "")
      [] OTHER ->
             Msg("Cannot read properties of null (reading 'url')", "")

-----------------------------------------------------------------------------
(* JSON-RPC error codes used by the handler.                               *)

InvalidRequestCode == -32600
MethodNotFoundCode == -32601
InvalidParamsCode == -32602
InternalErrorCode == -32603

-----------------------------------------------------------------------------
(* Request envelopes: req.body, destructured at line 16.                    *)

JsonrpcValues == {Undef, Str(""), Str("2.0")}

MethodValues ==
    {Undef, Str(""), Str("initialize"), Str("tools/list"), Str("tools/call"),
     Str("notifications/initialized"), Str("notifications/cancelled"),
     Str("resources/list"), BadObj}

IdValues == {Undef, Null, Num("0"), Num("1"), Str(""), Str("a")}

ArgValues == {Undef, Str("hello"), Num("5")}

ArgumentsValues ==
    {Undef, Null} \cup
    [t : {"object"}, content : ArgValues, model : {Undef, Str("claude"), Num("7")}]

NameValues == {Undef, Str(""), Str("save_conversation"), Str("add"), BadObj}

ParamsValues ==
    {Undef, Null} \cup
    [t : {"object"}, name : NameValues, arguments : ArgumentsValues]

Envelopes ==
    [jsonrpc : JsonrpcValues, method : MethodValues, id : IdValues,
     params : ParamsValues]

\* The value of an idle slot's envelope.
NoEnvelope == [jsonrpc |-> Undef, method |-> Undef, id |-> Undef, params |-> Undef]

-----------------------------------------------------------------------------
(* Response envelopes and the Express response object `res`.                *)

\* A member whose value is undefined is dropped by JSON.stringify, so
\* Undef stands for "member absent" in a response envelope.
ResultEnvelope(id, result) ==
    [jsonrpc |-> "2.0", id |-> id, result |-> result, error |-> Undef]

ErrorEnvelope(id, code, message) ==
    [jsonrpc |-> "2.0", id |-> id, result |-> Undef,
     error |-> [code |-> code, message |-> message]]

NoBody == [t |-> "empty", v |-> ""]

\* `id || null` (lines 41 and 165).
IdOrNull(id) == IF Truthy(id) THEN id ELSE Null

\* The handler's view of one request: res.statusCode, what has been written
\* to the connection, the trace of events, and where the handler stands.
FreshRes == [statusCode |-> 200, sent |-> <<>>, events |-> <<>>, pc |-> "run"]

\* res.status(code)
ResStatus(h, code) == [h EXCEPT !.statusCode = code]

\* res.json(body): sends body with the status set so far.
ResJson(h, body) ==
    [h EXCEPT !.sent = Append(@, [status |-> h.statusCode, body |-> body]),
              !.events = Append(@, "respond")]

\* res.end(): sends an empty body with the status set so far.
ResEnd(h) ==
    [h EXCEPT !.sent = Append(@, [status |-> h.statusCode, body |-> NoBody]),
              !.events = Append(@, "respond")]

\* The handler returns (or falls off its end).
Return(h) == [h EXCEPT !.pc = "done"]

Event(h, ev) == [h EXCEPT !.events = Append(@, ev)]

-----------------------------------------------------------------------------
(* The result payloads.                                                     *)

InitializeResult ==
    [protocolVersion |-> "2025-06-18",
     capabilities |-> [tools |-> "{}"],
     serverInfo |-> [name |-> "Remote MCP Server", version |-> "0.1.0"]]

ToolsListResult == [tools |-> <<[name |-> "save_conversation"]>>]

SavedResult(conversationUrl) ==
    [content |-> <<[type |-> "text",
                    text |-> Msg("Conversation saved. View it at ",
                                 ToString(conversationUrl))]>>]

-----------------------------------------------------------------------------
(* The handler of POST /mcp, lines 13-172, cut at its statements.  Every    *)
(* operator takes the handler's view h of the request and returns the view *)
(* after the statements it models.  The whole body is inside one try, so a *)
(* throw continues at Catch.                                               *)

\* A catch that only logs the error and sends nothing.
CatchLogOnly(h, id, message) == Return(h)

\* catch (error) { res.json({ id: id || null, error: -32603 }) }
Catch(h, id, message) ==
    Return(ResJson(h, ErrorEnvelope(IdOrNull(id), InternalErrorCode, message)))

\* `id === undefined && method` (line 20).
IsNotification(e) == e.id = Undef /\ Truthy(e.method)

\* Lines 21-34: log the notification, answer 204 without a body.
Notification(h, e) ==
    IF ~CanStringify(e.method)
    THEN Catch(h, e.id, TypeErrorToPrimitive)
    ELSE Return(ResEnd(ResStatus(h, 204)))

\* The required-field test without its jsonrpc operand.
MissingRequiredFieldsNoJsonrpc(e) == ~Truthy(e.method) \/ e.id = Undef

\* `!jsonrpc || !method || id === undefined` (line 38).
MissingRequiredFields(e) ==
    ~Truthy(e.jsonrpc) \/ ~Truthy(e.method) \/ e.id = Undef

\* Lines 39-47.
InvalidRequest(h, e) ==
    Return(ResJson(ResStatus(h, 400),
                   ErrorEnvelope(IdOrNull(e.id), InvalidRequestCode,
                                 Msg("Invalid Request - missing required fields", ""))))

\* case 'initialize' (lines 52-67).
Initialize(h, e) == Return(ResJson(h, ResultEnvelope(e.id, InitializeResult)))

\* case 'tools/list' (lines 69-93).
ToolsList(h, e) == Return(ResJson(h, ResultEnvelope(e.id, ToolsListResult)))

\* `!params || !params.name` (line 96).
MissingToolName(params) ==
    IF ~Truthy(params) THEN TRUE ELSE ~Truthy(params.name)

\* Lines 97-105.
InvalidToolName(h, e) ==
    Return(ResJson(ResStatus(h, 400),
                   ErrorEnvelope(e.id, InvalidParamsCode,
                                 Msg("Invalid params - missing tool name", ""))))

\* The argument test with only its content operand.
ArgumentsNotStringsContentOnly(args) == Typeof(args.content) # "string"

\* `typeof args.content !== 'string' || typeof args.model !== 'string'`
\* (line 113), for args an object.
ArgumentsNotStrings(args) ==
    Typeof(args.content) # "string" \/ Typeof(args.model) # "string"

\* Lines 114-122.
InvalidArguments(h, e) ==
    Return(ResJson(ResStatus(h, 400),
                   ErrorEnvelope(e.id, InvalidParamsCode,
                                 Msg("Invalid params - content and model must be strings", ""))))

\* save_conversation(content, model) up to its first suspension
\* (lines 180-192): throws when the base url is not configured, otherwise
\* starts the outbound fetch and the handler is suspended on it.
save_conversation(h, e, baseUrl) ==
    IF ~Truthy(baseUrl)
    THEN Catch(Event(Event(h, "save_conversation"), "rejected"), e.id,
               Msg("Missing base url, unable to process request", ""))
    ELSE [Event(Event(h, "save_conversation"), "fetch") EXCEPT !.pc = "fetch"]

\* The tool case with the `await` of line 125 left out: the result is sent
\* while the outbound call is still pending.
SaveConversationToolNoAwait(h, e, baseUrl) ==
    LET args == e.params.arguments IN
    IF args.t \in {"undefined", "null"}
    THEN Catch(h, e.id, TypeErrorRead(args, "content"))
    ELSE IF ArgumentsNotStrings(args)
         THEN InvalidArguments(h, e)
         ELSE LET h1 == save_conversation(h, e, baseUrl) IN
              IF h1.pc = "fetch"
              THEN ResJson(h1, ResultEnvelope(e.id, SavedResult(Str("[object Promise]"))))
              ELSE h1

\* case 'save_conversation' (lines 112-125).  Reading args.content throws
\* when params.arguments is undefined or null.
SaveConversationTool(h, e, baseUrl) ==
    LET args == e.params.arguments IN
    IF args.t \in {"undefined", "null"}
    THEN Catch(h, e.id, TypeErrorRead(args, "content"))
    ELSE IF ArgumentsNotStrings(args)
         THEN InvalidArguments(h, e)
         ELSE save_conversation(h, e, baseUrl)

\* default of the switch on name (lines 132-141).  res.status(400) is
\* evaluated before the argument of .json(), whose template literal may throw.
UnknownTool(h, e) ==
    LET name == e.params.name
        h400 == ResStatus(h, 400) IN
    IF ~CanStringify(name)
    THEN Catch(h400, e.id, TypeErrorToPrimitive)
    ELSE Return(ResJson(h400, ErrorEnvelope(e.id, MethodNotFoundCode,
                                            Msg("Unknown tool: ", ToString(name)))))

\* case 'tools/call' (lines 95-149), up to the first suspension.
ToolsCall(h, e, baseUrl) ==
    IF MissingToolName(e.params)
    THEN InvalidToolName(h, e)
    ELSE IF e.params.name = Str("save_conversation")
         THEN SaveConversationTool(h, e, baseUrl)
         ELSE UnknownTool(h, e)

\* default of the switch on method (lines 151-159).
MethodNotFound(h, e) ==
    LET h400 == ResStatus(h, 400) IN
    IF ~CanStringify(e.method)
    THEN Catch(h400, e.id, TypeErrorToPrimitive)
    ELSE Return(ResJson(h400, ErrorEnvelope(e.id, MethodNotFoundCode,
                                            Msg("Method not found: ", ToString(e.method)))))

\* switch (method) (lines 51-160).
Route(h, e, baseUrl) ==
    CASE e.method = Str("initialize") -> Initialize(h, e)
      [] e.method = Str("tools/list") -> ToolsList(h, e)
      [] e.method = Str("tools/call") -> ToolsCall(h, e, baseUrl)
      [] OTHER                        -> MethodNotFound(h, e)

\* The handler from its entry to its first suspension or its end.
Handler(e, baseUrl) ==
    IF IsNotification(e)
    THEN Notification(FreshRes, e)
    ELSE IF MissingRequiredFields(e)
         THEN InvalidRequest(FreshRes, e)
         ELSE Route(FreshRes, e, baseUrl)

-----------------------------------------------------------------------------
(* The remote archive service, as seen through fetch.                       *)

None == [t |-> "none", v |-> ""]
\* fetch rejected (the connection failed).
NetworkError == [t |-> "rejected", v |-> "fetch failed"]
\* response.json() rejected (the body is not JSON).
SyntaxError == [t |-> "rejected", v |-> "Unexpected token in JSON"]

Responses == [ok : BOOLEAN]

ConversationUrl == Str("https://archive.example/c/1")

ResponseBodies ==
    {Null} \cup
    [t : {"object"}, url : {Undef, ConversationUrl},
     error : {Undef, Str("quota exceeded")}]

\* The handler resumed after `await fetch(...)` (line 192).
FetchSettled(h, e, outcome) ==
    IF outcome = NetworkError
    THEN Catch(Event(h, "rejected"), e.id, Msg(NetworkError.v, ""))
    ELSE [h EXCEPT !.pc = "json"]

\* The handler resumed after `await response.json()` (line 193), to its
\* end: lines 195-199 of save_conversation, then lines 127-149.
JsonSettled(h, e, resp, data) ==
    IF data = SyntaxError
    THEN Catch(Event(h, "rejected"), e.id, Msg(SyntaxError.v, ""))
    ELSE IF ~resp.ok
         THEN IF data = Null
              THEN Catch(Event(h, "rejected"), e.id, TypeErrorRead(Null, "error"))
              ELSE Catch(Event(h, "rejected"), e.id,
                         Msg("Error message: ", ToString(data.error)))
         ELSE IF data = Null
              THEN Catch(Event(h, "rejected"), e.id, TypeErrorRead(Null, "url"))
              ELSE Return(ResJson(Event(h, "resolved"),
                                  ResultEnvelope(e.id, SavedResult(data.url))))

-----------------------------------------------------------------------------
(* State.                                                                   *)

VARIABLES
    AI_ARCHIVES_BASE_URL, \* process.env.AI_ARCHIVES_BASE_URL
    envelope,             \* req.body of the request in each slot
    pc,                   \* idle, fetch (line 192), json (line 193), done
    statusCode,           \* res.statusCode
    sent,                 \* what has been written to the connection
    events,               \* trace of the request: calls, settlements, responses
    response,             \* the settled value of fetch (line 192)
    responseData          \* the settled value of response.json() (line 193)

vars == <<AI_ARCHIVES_BASE_URL, envelope, pc, statusCode, sent, events,
          response, responseData>>

BaseUrlValues == {Undef, Str("https://archive.example")}

Init ==
    /\ AI_ARCHIVES_BASE_URL \in BaseUrlValues
    /\ envelope = [r \in Reqs |-> NoEnvelope]
    /\ pc = [r \in Reqs |-> "idle"]
    /\ statusCode = [r \in Reqs |-> 200]
    /\ sent = [r \in Reqs |-> <<>>]
    /\ events = [r \in Reqs |-> <<>>]
    /\ response = [r \in Reqs |-> None]
    /\ responseData = [r \in Reqs |-> None]

\* The handler's view of slot r.
View(r) ==
    [statusCode |-> statusCode[r], sent |-> sent[r], events |-> events[r],
     pc |-> pc[r]]

Store(r, h) ==
    /\ statusCode' = [statusCode EXCEPT ![r] = h.statusCode]
    /\ sent' = [sent EXCEPT ![r] = h.sent]
    /\ events' = [events EXCEPT ![r] = h.events]
    /\ pc' = [pc EXCEPT ![r] = h.pc]

\* A request arrives in slot r and the handler runs to its first suspension
\* or to its end.
Receive(r, e) ==
    /\ pc[r] = "idle"
    /\ envelope' = [envelope EXCEPT ![r] = e]
    /\ Store(r, Handler(e, AI_ARCHIVES_BASE_URL))
    /\ UNCHANGED <<AI_ARCHIVES_BASE_URL, response, responseData>>

\* fetch settles and the handler of slot r resumes.
FetchComplete(r, outcome) ==
    /\ pc[r] = "fetch"
    /\ response' = [response EXCEPT ![r] = outcome]
    /\ Store(r, FetchSettled(View(r), envelope[r], outcome))
    /\ UNCHANGED <<AI_ARCHIVES_BASE_URL, envelope, responseData>>

\* response.json() settles and the handler of slot r runs to its end.
JsonComplete(r, data) ==
    /\ pc[r] = "json"
    /\ responseData' = [responseData EXCEPT ![r] = data]
    /\ Store(r, JsonSettled(View(r), envelope[r], response[r], data))
    /\ UNCHANGED <<AI_ARCHIVES_BASE_URL, envelope, response>>

\* The exchange is over: req, res and the handler's locals are dropped.
\* Nothing of the request is kept.
Close(r) ==
    /\ pc[r] = "done"
    /\ envelope' = [envelope EXCEPT ![r] = NoEnvelope]
    /\ pc' = [pc EXCEPT ![r] = "idle"]
    /\ statusCode' = [statusCode EXCEPT ![r] = 200]
    /\ sent' = [sent EXCEPT ![r] = <<>>]
    /\ events' = [events EXCEPT ![r] = <<>>]
    /\ response' = [response EXCEPT ![r] = None]
    /\ responseData' = [responseData EXCEPT ![r] = None]
    /\ UNCHANGED AI_ARCHIVES_BASE_URL

\* No request is in flight.
Quiet == \A q \in Reqs : pc[q] = "idle"

ReceiveAlone == Quiet /\ \E r \in Reqs, e \in Envelopes : Receive(r, e)
Fetched == \E r \in Reqs, o \in Responses \cup {NetworkError} : FetchComplete(r, o)
Parsed == \E r \in Reqs, d \in ResponseBodies \cup {SyntaxError} : JsonComplete(r, d)
Closed == \E r \in Reqs : Close(r)

\* Requests handled one at a time, over every envelope.
Next == ReceiveAlone \/ Fetched \/ Parsed \/ Closed

Spec == Init /\ [][Next]_vars

\* The archive call is assumed to settle: fetch and response.json() each
\* eventually resolve or reject.
Fairness ==
    \A r \in Reqs :
        /\ WF_vars(\E o \in Responses \cup {NetworkError} : FetchComplete(r, o))
        /\ WF_vars(\E d \in ResponseBodies \cup {SyntaxError} : JsonComplete(r, d))

FairSpec == Spec /\ Fairness

-----------------------------------------------------------------------------
(* Requests in flight at the same time.  The envelopes are a cut of        *)
(* Envelopes that keeps one envelope of each outcome per id.               *)

ConcIds == {Num("0"), Num("1"), Str("a")}

SaveParams(arguments) ==
    [t |-> "object", name |-> Str("save_conversation"), arguments |-> arguments]

GoodArguments == [t |-> "object", content |-> Str("hello"), model |-> Str("claude")]

ConcEnvelopes ==
    {[jsonrpc |-> Str("2.0"), method |-> Str("notifications/initialized"),
      id |-> Undef, params |-> Undef]}
    \cup
    [jsonrpc : {Str("2.0")}, method : {Str("tools/call")}, id : ConcIds,
     params : {SaveParams(GoodArguments), SaveParams(Undef)}]
    \cup
    [jsonrpc : {Undef, Str("2.0")}, method : {Str("initialize")}, id : ConcIds,
     params : {Undef}]

Arrive == \E r \in Reqs, e \in ConcEnvelopes : Receive(r, e)

ConcNext == Arrive \/ Fetched \/ Parsed \/ Closed

ConcSpec == Init /\ [][ConcNext]_vars

-----------------------------------------------------------------------------
(* Vocabulary of the properties.                                            *)

Done(r) == pc[r] = "done"

\* The body of the response of a finished request that sent one.
Body(r) == sent[r][1].body

HasBody(r) == Len(sent[r]) >= 1 /\ Body(r) # NoBody

IsError(r, code) ==
    /\ HasBody(r)
    /\ Body(r).error # Undef
    /\ Body(r).error.code = code

IsSuccess(r) == HasBody(r) /\ Body(r).result # Undef

IsNoContent(r) == sent[r] = <<[status |-> 204, body |-> NoBody]>>

\* The archive client was entered, or its outbound call started.
ArchiveInvoked(r) ==
    \E i \in 1..Len(events[r]) : events[r][i] \in {"save_conversation", "fetch"}

\* A tools/call envelope naming save_conversation.
NamesSaveConversation(e) ==
    /\ e.method = Str("tools/call")
    /\ e.params.t = "object"
    /\ e.params.name = Str("save_conversation")

\* ... whose content and model are both strings.
HasStringArguments(e) ==
    /\ e.params.arguments.t = "object"
    /\ e.params.arguments.content.t = "string"
    /\ e.params.arguments.model.t = "string"

-----------------------------------------------------------------------------
\* At most one response so far, and exactly one envelope once a request that
\* is not a notification is finished.
C1_OneResponse(r) ==
    /\ Len(sent[r]) <= 1
    /\ (Done(r) /\ ~IsNotification(envelope[r])) =>
           /\ Len(sent[r]) = 1
           /\ HasBody(r)
           /\ (Body(r).result = Undef) # (Body(r).error = Undef)

(* C1.  Every envelope that is not classified as a notification gets       *)
(* exactly one response envelope on every path: never two at any moment,   *)
(* none while its archive call is pending, exactly one once the handler is *)
(* finished, and a request suspended on the archive call does finish, the  *)
(* archive call being assumed to settle.  The envelope has exactly one of  *)
(* result and error.                                                       *)
C1_ExactlyOneResponse ==
    /\ [](\A r \in Reqs : C1_OneResponse(r))
    /\ \A r \in Reqs : (pc[r] \in {"fetch", "json"}) ~> (Done(r) /\ Len(sent[r]) = 1)

\* A call whose archive call failed has been answered.
C1_Witness ==
    \E r \in Reqs :
        /\ Done(r)
        /\ events[r] = <<"save_conversation", "fetch", "rejected", "respond">>
        /\ Len(sent[r]) = 1

-----------------------------------------------------------------------------
(* C2.  An envelope with id absent and method present (here: the envelopes *)
(* the handler itself takes for notifications, a subset of those) ends in  *)
(* 204 with an empty body, whatever happens while it is handled; the catch *)
(* never writes a body for it and the archive client is not invoked.       *)
C2_NotificationNoContent ==
    \A r \in Reqs :
        (Done(r) /\ IsNotification(envelope[r])) =>
            (IsNoContent(r) /\ ~ArchiveInvoked(r))

-----------------------------------------------------------------------------
\* Not taken for a notification, and jsonrpc, method or id absent.
C3_Premise(e) ==
    /\ ~IsNotification(e)
    /\ (e.jsonrpc = Undef \/ e.method = Undef \/ e.id = Undef)

(* C3.  An envelope that is not classified as a notification and lacks     *)
(* jsonrpc, method or id is answered with error -32600 "Invalid Request -  *)
(* missing required fields", whatever method and params hold, and nothing  *)
(* else runs for it.                                                       *)
C3_InvalidRequest ==
    \A r \in Reqs :
        (Done(r) /\ C3_Premise(envelope[r])) =>
            /\ Len(sent[r]) = 1
            /\ IsError(r, InvalidRequestCode)
            /\ Body(r).error.message = Msg("Invalid Request - missing required fields", "")
            /\ Body(r).result = Undef
            /\ events[r] = <<"respond">>

\* A tools/call naming save_conversation with string arguments, without
\* jsonrpc, is rejected before routing.
C3_Witness ==
    \E r \in Reqs :
        /\ Done(r)
        /\ envelope[r].jsonrpc = Undef
        /\ envelope[r].id # Undef
        /\ NamesSaveConversation(envelope[r])
        /\ HasStringArguments(envelope[r])
        /\ IsError(r, InvalidRequestCode)

-----------------------------------------------------------------------------
(* C4.  A tools/call naming save_conversation whose content or model is    *)
(* missing or not a string, params.arguments absent included, is answered  *)
(* with error -32602 "Invalid params - ...".                               *)
C4_InvalidParams ==
    \A r \in Reqs :
        (/\ Done(r)
         /\ ~IsNotification(envelope[r])
         /\ ~MissingRequiredFields(envelope[r])
         /\ NamesSaveConversation(envelope[r])
         /\ ~HasStringArguments(envelope[r])) =>
            IsError(r, InvalidParamsCode)

-----------------------------------------------------------------------------
\* The archive call of slot r failed, in one of the three ways.
C5_ArchiveFailed(r) ==
    \/ AI_ARCHIVES_BASE_URL = Undef
    \/ response[r] \in Responses /\ ~response[r].ok
    \/ /\ responseData[r] \notin {None, Null, SyntaxError}
       /\ responseData[r].error # Undef

(* C5.  When the archive call of a valid save_conversation fails (base url *)
(* absent, or a non-2xx status, or an error member in the remote body) the *)
(* request is answered with error -32603 and never with a result.          *)
C5_ArchiveFailureIsInternalError ==
    \A r \in Reqs :
        (/\ Done(r)
         /\ \E i \in 1..Len(events[r]) : events[r][i] = "save_conversation"
         /\ C5_ArchiveFailed(r)) =>
            (IsError(r, InternalErrorCode) /\ ~IsSuccess(r))

-----------------------------------------------------------------------------
(* C6.  An error response -32600 or -32603 carries the request's id when   *)
(* the request has one, 0 and "" included, and null only when it has none. *)
C6_ErrorEchoesId ==
    \A r \in Reqs :
        (Done(r) /\ (IsError(r, InvalidRequestCode) \/ IsError(r, InternalErrorCode))) =>
            Body(r).id = (IF envelope[r].id = Undef THEN Null ELSE envelope[r].id)

-----------------------------------------------------------------------------
\* A success status.
C7_Is2xx(status) == status >= 200 /\ status <= 299

(* C7.  The status agrees with the outcome: no body goes with 204, a       *)
(* result with a 2xx status, an error with a status outside 2xx.           *)
C7_StatusAgrees ==
    \A r \in Reqs :
        Len(sent[r]) >= 1 =>
            /\ ~HasBody(r) => sent[r][1].status = 204
            /\ IsSuccess(r) => C7_Is2xx(sent[r][1].status)
            /\ (HasBody(r) /\ Body(r).error # Undef) => ~C7_Is2xx(sent[r][1].status)

-----------------------------------------------------------------------------
(* C8.  The archive client is invoked only for a call (jsonrpc, method and *)
(* id present) of tools/call naming save_conversation with string content  *)
(* and model; a request that ended in 204, -32600, -32601 or -32602 has    *)
(* invoked nothing.                                                        *)
C8_ArchiveOnlyForValidCall ==
    \A r \in Reqs :
        /\ ArchiveInvoked(r) =>
              /\ envelope[r].jsonrpc # Undef
              /\ envelope[r].id # Undef
              /\ NamesSaveConversation(envelope[r])
              /\ HasStringArguments(envelope[r])
        /\ (Done(r) /\ (\/ IsNoContent(r)
                        \/ IsError(r, InvalidRequestCode)
                        \/ IsError(r, MethodNotFoundCode)
                        \/ IsError(r, InvalidParamsCode))) => ~ArchiveInvoked(r)

\* The outbound call of a request is in flight.
C8_Witness == \E r \in Reqs : pc[r] = "fetch" /\ ArchiveInvoked(r)

-----------------------------------------------------------------------------
\* The event traces of a request, finished or not.
C9_Traces ==
    {<<>>,
     <<"respond">>,
     <<"save_conversation", "rejected", "respond">>,
     <<"save_conversation", "fetch">>,
     <<"save_conversation", "fetch", "rejected", "respond">>,
     <<"save_conversation", "fetch", "resolved", "respond">>}

(* C9.  For a request that invokes the archive client the events are, in   *)
(* this order and each at most once: invocation, settlement, response.     *)
(* Nothing is sent before the settlement, nothing is retried, and a        *)
(* rejection is followed at once by the error response.                    *)
C9_InvokeSettleRespond ==
    \A r \in Reqs :
        /\ events[r] \in C9_Traces
        /\ Len(sent[r]) = Cardinality({i \in 1..Len(events[r]) : events[r][i] = "respond"})
        /\ (\E i \in 1..Len(events[r]) : events[r][i] = "rejected") =>
               IsError(r, InternalErrorCode)
        /\ (\E i \in 1..Len(events[r]) : events[r][i] = "resolved") => IsSuccess(r)

\* The archive call was rejected by the remote side and the error sent.
C9_Witness ==
    \E r \in Reqs :
        /\ events[r] = <<"save_conversation", "fetch", "rejected", "respond">>
        /\ response[r] \in Responses
        /\ IsError(r, InternalErrorCode)

-----------------------------------------------------------------------------
\* What the handler sends for envelope e, given how e's own archive call
\* settles.
C10_Own(e, baseUrl, resp, data) ==
    LET h0 == Handler(e, baseUrl) IN
    IF h0.pc = "done" THEN h0.sent
    ELSE LET h1 == FetchSettled(h0, e, resp) IN
         IF h1.pc = "done" THEN h1.sent
         ELSE JsonSettled(h1, e, resp, data).sent

(* C10.  Under any interleaving each finished request's response carries   *)
(* that request's own id and is what its own envelope and the result of    *)
(* its own archive call determine.                                         *)
C10_Independent ==
    \A r \in Reqs :
        Done(r) =>
            /\ sent[r] = C10_Own(envelope[r], AI_ARCHIVES_BASE_URL,
                                 response[r], responseData[r])
            /\ (HasBody(r) /\ envelope[r].id # Undef) => Body(r).id = envelope[r].id

====
